---- MODULE Spec2Model ----
(***************************************************************************)
(* Logistic growth simulator (codeKomnumB.c): main, input_parameters,      *)
(* analyze_model, run_simulation, runge_kutta_4, logistic_growth.          *)
(*                                                                         *)
(* Numbers.  A C double is modelled as a decimal fixed-point number: the   *)
(* integer x stands for x / ONE.  Every product and quotient is computed   *)
(* exactly and then rounded to the nearest representable value (ties to    *)
(* even, as IEEE arithmetic rounds), in the order the C expression         *)
(* evaluates it.  At this resolution the trajectories of the inputs drawn  *)
(* below stay within 3e-4 * K of the double results, and the iteration at  *)
(* which 0.999*K is crossed differs by at most one.  All values stay       *)
(* inside the 32-bit range of TLC's integers (TLC reports any overflow).   *)
(* NaN and -inf arise only from log and are carried as a kind tag.         *)
(* The C int keeps its width: INT_MIN..INT_MAX.                            *)
(* scanf leaves its target unchanged on a failed read; the value then read *)
(* from the uninitialised variable is one more arbitrary input, which the  *)
(* input sets stand for.                                                   *)
(***************************************************************************)
EXTENDS Integers, Sequences, FiniteSets, TLC

(* 1.0 as a fixed-point number: four decimal places. *)
ONE == 10000

(* Range of the C int that holds steps and i. *)
INT_MAX == 2147483647

INT_MIN == -INT_MAX - 1

(* ---------------------------------------------------------------------- *)
(* double arithmetic                                                      *)
(* ---------------------------------------------------------------------- *)

Abs(x) == IF x < 0 THEN -x ELSE x

Sign(x) == IF x < 0 THEN -1 ELSE 1

(* Round to nearest, ties to even: whether the quotient q with remainder m  *)
(* of a division by u is rounded up.                                        *)
RoundUp(q, m, u) == 2 * m > u \/ (2 * m = u /\ q % 2 = 1)

(* a * b, rounded to the nearest representable value; the operands are     *)
(* split so that no partial product leaves the integer range.              *)
Mul(a, b) ==
    LET x == Abs(a)
        y == Abs(b)
        xh == x \div ONE
        xl == x % ONE
        yh == y \div ONE
        yl == y % ONE
        q == xh * yh * ONE + xh * yl + xl * yh + (xl * yl) \div ONE
        m == (xl * yl) % ONE
    IN  Sign(a) * Sign(b) * (IF RoundUp(q, m, ONE) THEN q + 1 ELSE q)

(* <<(m * rem) \div b, (m * rem) % b>> for 0 <= rem < b, by doubling, so   *)
(* that no intermediate value exceeds 2 * b.                               *)
RECURSIVE MulDivRem(_, _, _)
MulDivRem(rem, b, m) ==
    IF m = 0 THEN <<0, 0>>
    ELSE LET h == MulDivRem(rem, b, m \div 2)
             s == h[2] + h[2]
             d == IF s >= b THEN <<2 * h[1] + 1, s - b>> ELSE <<2 * h[1], s>>
             u == d[2] + rem
         IN  IF m % 2 = 0 THEN d
             ELSE IF u >= b THEN <<d[1] + 1, u - b>> ELSE <<d[1], u>>

(* a / b, rounded to the nearest representable value (b # 0). *)
Div(a, b) ==
    LET x == Abs(a)
        y == Abs(b)
        f == MulDivRem(x % y, y, ONE)
        q == (x \div y) * ONE + f[1]
    IN  Sign(a) * Sign(b) * (IF RoundUp(q, f[2], y) THEN q + 1 ELSE q)

(* The double constant n/d, e.g. Dec(1, 10) for 0.1. *)
Dec(n, d) == (n * ONE) \div d

(* printf("%.<d>f", x): the decimal text, as a count of 10^-d units, rounded *)
(* to nearest with ties to even.                                            *)
Format(x, d) ==
    IF d >= 4 THEN x * 10 ^ (d - 4)
    ELSE LET u == 10 ^ (4 - d)
             q == Abs(x) \div u
             m == Abs(x) % u
         IN  Sign(x) * (IF RoundUp(q, m, u) THEN q + 1 ELSE q)

(* ln 2 to four places, used by Log. *)
LN2 == 6931

(* 2 * atanh(z) for 0 <= z < 1/3 by its series: ln m with z = (m-1)/(m+1). *)
Atanh2(z) ==
    LET z2 == Mul(z, z)
        z3 == Mul(z2, z)
        z5 == Mul(z3, z2)
        z7 == Mul(z5, z2)
    IN  2 * (z + Div(z3, 3 * ONE) + Div(z5, 5 * ONE) + Div(z7, 7 * ONE))

(* ln x for x >= 1, x = m * 2^n with 1 <= m < 2: n * ln 2 + ln m. *)
RECURSIVE LnPos(_, _)
LnPos(x, n) ==
    IF x >= 2 * ONE THEN LnPos(Div(x, 2 * ONE), n + 1)
    ELSE n * LN2 + Atanh2(Div(x - ONE, x + ONE))

(* log(x) of math.h: NaN for x < 0, -inf for x = 0, finite otherwise       *)
(* (ln x = -ln(1/x) below 1).                                              *)
Log(x) ==
    IF x < 0 THEN [kind |-> "nan", v |-> 0]
    ELSE IF x = 0 THEN [kind |-> "-inf", v |-> 0]
    ELSE IF x < ONE THEN [kind |-> "fin", v |-> -LnPos(Div(ONE, x), 0)]
    ELSE [kind |-> "fin", v |-> LnPos(x, 0)]

(* x / r for a double x that may be NaN or -inf, and r > 0. *)
DivD(x, r) == IF x.kind = "fin" THEN [kind |-> "fin", v |-> Div(x.v, r)] ELSE x

(* x > 0 on doubles: false for NaN and for -inf. *)
GtZero(x) == x.kind = "fin" /\ x.v > 0

(* ---------------------------------------------------------------------- *)
(* PopulationParams                                                       *)
(* ---------------------------------------------------------------------- *)

(* t_max is the only field kept with a decimal exponent, m * 10^e, so that  *)
(* an input such as 1e10 can be read; it is used only by the validation and *)
(* by the step count.                                                       *)
PopulationParams(r, K, P0, t_max, e, dt) ==
    [r |-> r, K |-> K, P0 |-> P0, t_max |-> [m |-> t_max, e |-> e], dt |-> dt]

(* ---------------------------------------------------------------------- *)
(* logistic_growth, runge_kutta_4                                         *)
(* ---------------------------------------------------------------------- *)

logistic_growth(t, P, params) ==
    Mul(Mul(params.r, P), ONE - Div(P, params.K))

(* Faulty variant: the weight written (1/6) * (...), an integer division   *)
(* that is 0, so the increment is lost.                                     *)
runge_kutta_4_intdiv(t, P, dt, params) == P

runge_kutta_4(t, P, dt, params) ==
    LET k1 == Mul(dt, logistic_growth(t, P, params))
        k2 == Mul(dt, logistic_growth(t + Div(dt, 2 * ONE), P + Div(k1, 2 * ONE), params))
        k3 == Mul(dt, logistic_growth(t + Div(dt, 2 * ONE), P + Div(k2, 2 * ONE), params))
        k4 == Mul(dt, logistic_growth(t + dt, P + k3, params))
    IN  P + Div(k1 + 2 * k2 + 2 * k3 + k4, 6 * ONE)

(* ---------------------------------------------------------------------- *)
(* run_simulation: step count and termination threshold                   *)
(* ---------------------------------------------------------------------- *)

(* The integer part of (m * 10^e) / dt digit by digit, or -1 once it leaves *)
(* the range of int.                                                        *)
RECURSIVE Quotient(_, _, _, _)
Quotient(q, rem, dt, e) ==
    IF e = 0 THEN q
    ELSE LET x == MulDivRem(rem, dt, 10)
         IN  IF q > (INT_MAX - x[1]) \div 10 THEN -1
             ELSE Quotient(10 * q + x[1], x[2], dt, e - 1)

(* (int)(params->t_max / params->dt): the truncated quotient when it fits   *)
(* an int.  Otherwise the conversion is undefined: the x86 conversion       *)
(* instruction yields INT_MIN, a saturating one INT_MAX.                    *)
StepCounts(params) ==
    LET q == Quotient(params.t_max.m \div params.dt, params.t_max.m % params.dt,
                      params.dt, params.t_max.e)
    IN  IF q = -1 THEN {INT_MIN, INT_MAX} ELSE {q}

(* Faulty variants: the factor 0.999 left out, or mistyped as 0.99. *)
Threshold_K(params) == params.K

Threshold_99(params) == Mul(params.K, Dec(99, 100))

(* params->K * 0.999 *)
Threshold(params) == Mul(params.K, Dec(999, 1000))

(* Faulty variant: the population compared with K itself. *)
CapacityReached_above(P, params) == P >= params.K

(* P >= params->K * 0.999 *)
CapacityReached(P, params) == P >= Threshold(params)

(* i++ on a 32-bit int (wrapping past INT_MAX). *)
NextInt(i) == IF i = INT_MAX THEN INT_MIN ELSE i + 1

(* The record computed by one loop iteration for the pre-step state. *)
Sample(t, P, params) ==
    [t |-> t, P |-> P,
     growthRate |-> logistic_growth(t, P, params),
     percentOfK |-> Mul(Div(P, params.K), 100 * ONE)]

(* printf("%-10.2f %-15.2f %-15.4f %-15.2f%%\n", ...) *)
DisplayRow(s) ==
    <<Format(s.t, 2), Format(s.P, 2), Format(s.growthRate, 4), Format(s.percentOfK, 2)>>

(* Faulty variant: population and growth rate written in the wrong order. *)
CsvRow_swapped(s) ==
    <<Format(s.t, 4), Format(s.growthRate, 6), Format(s.P, 4), Format(s.percentOfK, 4)>>

(* fprintf(output_file, "%.4f,%.4f,%.6f,%.4f\n", ...) *)
CsvRow(s) ==
    <<Format(s.t, 4), Format(s.P, 4), Format(s.growthRate, 6), Format(s.percentOfK, 4)>>

(* i % 10 == 0 *)
Displayed(i) == i % 10 = 0

(* ---------------------------------------------------------------------- *)
(* analyze_model                                                          *)
(* ---------------------------------------------------------------------- *)

(* log(params->K / params->P0 - 1.0) / params->r *)
HalfTime(params) == DivD(Log(Div(params.K, params.P0) - ONE), params.r)

(* Faulty variants: !(t_half <= 0), which lets NaN through, and t_half >= 0. *)
HalfTimeShown_nan(t_half) == t_half.kind = "nan" \/ GtZero(t_half)

HalfTimeShown_ge(t_half) == t_half.kind = "fin" /\ t_half.v >= 0

(* if (t_half > 0) *)
HalfTimeShown(t_half) == GtZero(t_half)

(* params->r * P_max_growth * (1.0 - P_max_growth / params->K) *)
MaxGrowthRate(params) ==
    LET P_max_growth == Div(params.K, 2 * ONE)
    IN  Mul(Mul(params.r, P_max_growth), ONE - Div(P_max_growth, params.K))

(* ---------------------------------------------------------------------- *)
(* input_parameters, main                                                 *)
(* ---------------------------------------------------------------------- *)

(* Faulty variant: t_max left out of the validation. *)
Invalid_no_t_max(p) == p.r <= 0 \/ p.K <= 0 \/ p.P0 <= 0 \/ p.dt <= 0

(* r <= 0 || K <= 0 || P0 <= 0 || t_max <= 0 || dt <= 0 *)
Invalid(p) ==
    p.r <= 0 \/ p.K <= 0 \/ p.P0 <= 0 \/ p.t_max.m <= 0 \/ p.dt <= 0

(* params->P0 >= params->K *)
Degenerate(p) == p.P0 >= p.K

(* The three preset scenarios of main. *)
Preset(scenario) ==
    CASE scenario = 1 ->
           PopulationParams(Dec(1, 2), 1000 * ONE, 10 * ONE, 50 * ONE, 0, Dec(1, 10))
      [] scenario = 2 ->
           PopulationParams(Dec(3, 100), 100000 * ONE, 5000 * ONE, 200 * ONE, 0, Dec(1, 10))
      [] scenario = 3 ->
           PopulationParams(Dec(1, 5), 500 * ONE, 20 * ONE, 50 * ONE, 0, Dec(1, 10))

(* Inputs. *)
MaxChoice == 4

MaxScenario == 4

RValues == {0, Dec(1, 10), Dec(1, 2), 3 * ONE}

KValues == {0, 500 * ONE, 1000 * ONE}

P0Values == {0, 10 * ONE, 250 * ONE, 400 * ONE, Dec(4998, 10), 500 * ONE, 600 * ONE}

TMaxValues == {-ONE, 10 * ONE}

DtValues == {0, Dec(1, 2), ONE}

(* Manual inputs whose t_max / dt exceeds INT_MAX: t_max = 1e10. *)
HugeInputs ==
    {PopulationParams(Dec(1, 2), 1000 * ONE, 10 * ONE, ONE, 10, Dec(1, 10)),
     PopulationParams(Dec(1, 10), 500 * ONE, 600 * ONE, ONE, 10, Dec(1, 2))}

ManualInputs ==
    {PopulationParams(r, K, P0, t_max, 0, dt) :
        r \in RValues, K \in KValues, P0 \in P0Values,
        t_max \in TMaxValues, dt \in DtValues} \cup HugeInputs

VARIABLES
    pc,           \* position in main / run_simulation
    params,       \* PopulationParams of main
    console,      \* tags of the messages printed to stdout, in order
    exit_code,    \* -1 while running, else the process exit status
    analysis,     \* the numbers printed by analyze_model
    t, P,         \* run_simulation locals
    steps, i,
    output_file,  \* "unopened", "NULL" (fopen failed), "open", "closed"
    csv,          \* data rows of population_data.csv
    shown,        \* table rows printed to stdout
    samples,      \* the per-iteration values (t, P, growth_rate, percentage_K)
    capacity_t    \* time printed by the capacity message, <<>> if none

vars == <<pc, params, console, exit_code, analysis, t, P, steps, i,
          output_file, csv, shown, samples, capacity_t>>

simVars == <<t, P, steps, i, output_file, csv, shown, samples, capacity_t>>

Init ==
    /\ pc = "main"
    /\ params = PopulationParams(0, 0, 0, 0, 0, 0)
    /\ console = <<>>
    /\ exit_code = -1
    /\ analysis = [K |-> 0, t_half |-> <<>>, max_growth_rate |-> 0, P_max_growth |-> 0]
    /\ t = 0 /\ P = 0 /\ steps = 0 /\ i = 0
    /\ output_file = "unopened"
    /\ csv = <<>> /\ shown = <<>> /\ samples = <<>>
    /\ capacity_t = <<>>

(* case 1: input_parameters reads the five values, validates, warns. *)
input_parameters ==
    /\ pc = "main"
    /\ \E p \in ManualInputs :
        /\ params' = p
        /\ IF Invalid(p)
           THEN /\ console' = console \o <<"menu", "error">>
                /\ exit_code' = 1
                /\ pc' = "exit"
           ELSE /\ console' = console \o <<"menu">> \o
                                (IF Degenerate(p) THEN <<"warning">> ELSE <<>>)
                /\ exit_code' = exit_code
                /\ pc' = "analyze"
    /\ UNCHANGED <<analysis, simVars>>

(* case 2: a preset scenario, or "Pilihan tidak valid!" and return 1 (t_max *)
(* and dt are assigned before the scenario is looked at).                   *)
use_scenario ==
    /\ pc = "main"
    /\ \E scenario \in 0..MaxScenario :
        IF scenario \in {1, 2, 3}
        THEN /\ params' = Preset(scenario)
             /\ console' = console \o <<"menu">>
             /\ exit_code' = exit_code
             /\ pc' = "analyze"
        ELSE /\ params' = [params EXCEPT !.t_max = [m |-> 50 * ONE, e |-> 0],
                                         !.dt = Dec(1, 10)]
             /\ console' = console \o <<"menu", "invalid">>
             /\ exit_code' = 1
             /\ pc' = "exit"
    /\ UNCHANGED <<analysis, simVars>>

(* case 3: show_example_scenarios and return 0. *)
show_example_scenarios ==
    /\ pc = "main"
    /\ console' = console \o <<"menu", "examples">>
    /\ exit_code' = 0
    /\ pc' = "exit"
    /\ UNCHANGED <<params, analysis, simVars>>

(* default: "Pilihan tidak valid!" and return 1. *)
invalid_choice ==
    /\ pc = "main"
    /\ console' = console \o <<"menu", "invalid">>
    /\ exit_code' = 1
    /\ pc' = "exit"
    /\ UNCHANGED <<params, analysis, simVars>>

(* switch (choice) in main *)
main(choice) ==
    \/ choice = 1 /\ input_parameters
    \/ choice = 2 /\ use_scenario
    \/ choice = 3 /\ show_example_scenarios
    \/ choice \notin {1, 2, 3} /\ invalid_choice

analyze_model ==
    /\ pc = "analyze"
    /\ LET t_half == HalfTime(params)
       IN  /\ analysis' =
                [K |-> Format(params.K, 0),
                 t_half |-> IF HalfTimeShown(t_half)
                            THEN <<Format(t_half.v, 2)>> ELSE <<>>,
                 max_growth_rate |-> Format(MaxGrowthRate(params), 4),
                 P_max_growth |-> Format(Div(params.K, 2 * ONE), 0)]
           /\ console' = console \o <<"analysis", "equilibria">> \o
                           (IF HalfTimeShown(t_half) THEN <<"t_half">> ELSE <<>>) \o
                           <<"max_growth">>
    /\ pc' = "simulate"
    /\ UNCHANGED <<params, exit_code, simVars>>

(* run_simulation up to the loop: locals, header, fopen. *)
run_simulation ==
    /\ pc = "simulate"
    /\ t' = 0
    /\ P' = params.P0
    /\ steps' \in StepCounts(params)
    /\ i' = 0
    /\ console' = console \o <<"simulation", "table_header">>
    /\ \E opened \in BOOLEAN : output_file' = IF opened THEN "open" ELSE "NULL"
    /\ csv' = <<>>
    /\ pc' = "loop"
    /\ UNCHANGED <<params, exit_code, analysis, shown, samples, capacity_t>>

(* One iteration of for (i = 0; i <= steps; i++). *)
loop_iteration ==
    /\ pc = "loop"
    /\ i <= steps
    /\ LET s == Sample(t, P, params)
       IN  /\ samples' = Append(samples, s)
           /\ shown' = IF Displayed(i) THEN Append(shown, DisplayRow(s)) ELSE shown
           /\ csv' = IF output_file = "open" THEN Append(csv, CsvRow(s)) ELSE csv
    /\ P' = runge_kutta_4(t, P, params.dt, params)
    /\ t' = t + params.dt
    /\ IF CapacityReached(P', params)
       THEN /\ capacity_t' = <<Format(t', 2)>>
            /\ console' = Append(console, "capacity")
            /\ i' = i
            /\ pc' = "close"
       ELSE /\ capacity_t' = capacity_t
            /\ console' = console
            /\ i' = NextInt(i)
            /\ pc' = "loop"
    /\ UNCHANGED <<params, exit_code, analysis, steps, output_file>>

(* After the loop: fclose and the "saved" message. *)
run_simulation_close ==
    /\ \/ pc = "close"
       \/ pc = "loop" /\ i > steps
    /\ output_file' = IF output_file = "open" THEN "closed" ELSE output_file
    /\ console' = IF output_file = "open" THEN Append(console, "saved") ELSE console
    /\ pc' = "return"
    /\ UNCHANGED <<params, exit_code, analysis, t, P, steps, i, csv, shown,
                   samples, capacity_t>>

(* The interpretation text and return 0. *)
main_return ==
    /\ pc = "return"
    /\ console' = Append(console, "interpretation")
    /\ exit_code' = 0
    /\ pc' = "exit"
    /\ UNCHANGED <<params, analysis, simVars>>

Next ==
    \/ \E choice \in 0..MaxChoice : main(choice)
    \/ analyze_model
    \/ run_simulation
    \/ loop_iteration
    \/ run_simulation_close
    \/ main_return

Spec == Init /\ [][Next]_vars

(* ---------------------------------------------------------------------- *)
(* Properties                                                             *)
(* ---------------------------------------------------------------------- *)

Printed(tag) == \E k \in 1..Len(console) : console[k] = tag

(* run_simulation has returned. *)
SimulationOver == pc \in {"return", "exit"} /\ Printed("simulation")

(* Any of the five parameters is non-positive. *)
AnyNonPositive(p) ==
    p.r <= 0 \/ p.K <= 0 \/ p.P0 <= 0 \/ p.t_max.m <= 0 \/ p.dt <= 0

(* floor(t_max / dt), or -1 when it exceeds INT_MAX. *)
FloorSteps(p) == Quotient(p.t_max.m \div p.dt, p.t_max.m % p.dt, p.dt, p.t_max.e)

(* 0.999 * K *)
NearCapacity(p) == Mul(p.K, Dec(999, 1000))

(* C1: for valid parameters, once run_simulation is over it has emitted at  *)
(* most floor(t_max/dt) + 1 samples, and exactly that many when no post-step *)
(* population reached 0.999*K (no capacity event).                          *)
C1_SampleCount ==
    SimulationOver =>
        /\ FloorSteps(params) # -1 => Len(samples) <= FloorSteps(params) + 1
        /\ capacity_t = <<>> =>
              FloorSteps(params) # -1 /\ Len(samples) = FloorSteps(params) + 1

(* C2: whenever the loop goes on, the population just computed is below    *)
(* 0.999*K and no capacity event exists; once the event exists the loop has *)
(* stopped, the post-step population is at or above 0.999*K, the event      *)
(* carries the time of the last emitted sample plus dt, and that post-step  *)
(* state is not among the samples; and no step taken after the event adds a *)
(* sample, a table row or a CSV row.                                        *)
C2_State ==
    /\ pc = "loop" =>
          /\ capacity_t = <<>>
          /\ samples # <<>> => P < NearCapacity(params)
    /\ capacity_t # <<>> =>
          /\ pc \in {"close", "return", "exit"}
          /\ P >= NearCapacity(params)
          /\ samples # <<>>
          /\ t = samples[Len(samples)].t + params.dt
          /\ capacity_t = <<Format(samples[Len(samples)].t + params.dt, 2)>>
          /\ \A k \in 1..Len(samples) : samples[k].t < t

C2_Step ==
    capacity_t # <<>> =>
        samples' = samples /\ shown' = shown /\ csv' = csv /\ capacity_t' = capacity_t

(* C2: the state part holds in every state and the step part of every step. *)
C2_CapacityStopsLoop == [](C2_State) /\ [][C2_Step]_vars

C2_Witness ==
    pc = "exit" /\ capacity_t # <<>> /\ Len(samples) >= 2 /\ exit_code = 0

(* C3 as stated: for valid parameters with 0 < P0 < K the emitted P values  *)
(* are strictly increasing and none exceeds K.                              *)
C3_Original ==
    (~AnyNonPositive(params) /\ params.P0 < params.K) =>
        \A k \in 1..Len(samples) :
            /\ samples[k].P <= params.K
            /\ k > 1 => samples[k - 1].P < samples[k].P

(* C3 amended: for valid parameters with 0 < P0 < K no emitted P exceeds K, *)
(* and the emitted P values are strictly increasing when r*dt <= 1.         *)
C3_Amended ==
    (~AnyNonPositive(params) /\ params.P0 < params.K) =>
        \A k \in 1..Len(samples) :
            /\ samples[k].P <= params.K
            /\ (k > 1 /\ Mul(params.r, params.dt) <= ONE) =>
                  samples[k - 1].P < samples[k].P

C3_Witness ==
    /\ ~AnyNonPositive(params) /\ params.P0 < params.K
    /\ Mul(params.r, params.dt) = ONE \div 2
    /\ Len(samples) >= 5
    /\ pc = "exit"

(* C4: while any of r, K, P0, t_max, dt is non-positive, nothing of the     *)
(* analysis or the simulation has been printed, no sample exists, the CSV   *)
(* file has not been opened, and main is either still reading or has exited. *)
C4_InvalidStops ==
    AnyNonPositive(params) =>
        /\ pc \in {"main", "exit"}
        /\ pc = "exit" => exit_code # -1
        /\ ~Printed("analysis") /\ ~Printed("simulation")
        /\ analysis.K = 0 /\ analysis.t_half = <<>>
        /\ samples = <<>> /\ shown = <<>> /\ csv = <<>>
        /\ output_file = "unopened"

C4_Witness ==
    /\ params.t_max.m <= 0 /\ params.r > 0 /\ params.K > 0
    /\ params.P0 > 0 /\ params.dt > 0
    /\ Printed("error") /\ pc = "exit" /\ exit_code = 1

(* The k-th CSV row is the k-th sample in the order t, P, growthRate,       *)
(* percentOfK, and every displayed row is a sample that also has a CSV row. *)
AllPersisted ==
    /\ Len(csv) = Len(samples)
    /\ \A k \in 1..Len(samples) :
          csv[k] = <<Format(samples[k].t, 4), Format(samples[k].P, 4),
                     Format(samples[k].growthRate, 6),
                     Format(samples[k].percentOfK, 4)>>
    /\ Len(shown) = (Len(samples) + 9) \div 10
    /\ \A j \in 1..Len(shown) :
          /\ 10 * (j - 1) + 1 <= Len(csv)
          /\ shown[j][1] = Format(samples[10 * (j - 1) + 1].t, 2)
          /\ shown[j][2] = Format(samples[10 * (j - 1) + 1].P, 2)

(* C5 as stated: every computed sample has its CSV row, in every run. *)
C5_Original == AllPersisted

(* C5 amended: every computed sample has its CSV row whenever fopen         *)
(* succeeded; when it returned NULL no row is written at all.               *)
C5_Amended ==
    /\ output_file \in {"open", "closed"} => AllPersisted
    /\ output_file \in {"unopened", "NULL"} => csv = <<>>

C5_Witness ==
    output_file = "closed" /\ Len(csv) >= 12 /\ Len(shown) >= 2 /\ Len(shown) < Len(csv)

(* r = 0.1, K = 500, P0 = 600, t_max = 10, dt = 0.5 *)
DegenerateScenario ==
    PopulationParams(Dec(1, 10), 500 * ONE, 600 * ONE, 10 * ONE, 0, Dec(1, 2))

(* C6: in the degenerate scenario the finished simulation has emitted a     *)
(* sequence of samples whose P values decrease toward K: at least two       *)
(* samples, each below the one before and none below K.                     *)
C6_DecreasesTowardK ==
    (params = DegenerateScenario /\ SimulationOver) =>
        /\ Len(samples) >= 2
        /\ \A k \in 2..Len(samples) :
              samples[k].P < samples[k - 1].P /\ samples[k].P >= params.K

(* C7: with all parameters positive and P0 >= K the warning has been        *)
(* printed, the exit status is never 1, a finished run has printed both the *)
(* analysis and the simulation and returned 0, and no half-capacity time is *)
(* printed: the argument of the logarithm is <= 0.                          *)
C7_DegenerateProceeds ==
    (~AnyNonPositive(params) /\ params.P0 >= params.K) =>
        /\ Printed("warning")
        /\ exit_code \in {-1, 0}
        /\ pc = "exit" =>
              /\ exit_code = 0
              /\ Printed("analysis") /\ Printed("simulation")
              /\ Printed("interpretation")
        /\ Div(params.K, params.P0) - ONE <= 0
        /\ ~Printed("t_half")
        /\ analysis.t_half = <<>>

C7_Witness ==
    /\ ~AnyNonPositive(params) /\ params.P0 > params.K
    /\ pc = "exit" /\ Printed("analysis") /\ Len(samples) >= 1

(* C8: in preset scenario 1 (r = 0.5, K = 1000, P0 = 10, t_max = 50,        *)
(* dt = 0.1) the loop ends through the capacity event before the step count *)
(* is exhausted, at a time below 50 and a post-step population >= 999.      *)
C8_Scenario1EndsEarly ==
    (params = Preset(1) /\ pc \in {"close", "return", "exit"}) =>
        /\ capacity_t # <<>>
        /\ i < steps
        /\ t < 50 * ONE
        /\ capacity_t[1] < 50 * 100
        /\ P >= 999 * ONE

C8_Witness ==
    params = Preset(1) /\ pc = "exit" /\ capacity_t # <<>> /\ Len(samples) > 100

(* C9: the first sample is (0, P0); every later sample has P < 0.999*K; and *)
(* when P0 >= 0.999*K and the first step leaves P at or above 0.999*K, the  *)
(* loop emits exactly that one sample.                                      *)
C9_SamplesBelowThreshold ==
    /\ samples # <<>> => samples[1].t = 0 /\ samples[1].P = params.P0
    /\ \A k \in 2..Len(samples) : samples[k].P < NearCapacity(params)
    /\ ( /\ samples # <<>>
         /\ params.P0 >= NearCapacity(params)
         /\ runge_kutta_4(0, params.P0, params.dt, params) >= NearCapacity(params) )
       => Len(samples) = 1

C9_Witness ==
    /\ pc = "exit" /\ Len(samples) = 1
    /\ params.P0 >= NearCapacity(params) /\ params.P0 < params.K

(* The lines analyze_model has printed. *)
AnalysisLines ==
    LET k == CHOOSE j \in 1..Len(console) : console[j] = "analysis"
    IN  SubSeq(console, k, Len(console))

(* C10: once analyze_model has run, the half-capacity time is printed       *)
(* exactly when P0 < K/2, and then it is the positive value                 *)
(* ln(K/P0 - 1)/r; otherwise (the value zero or negative for                *)
(* K/2 <= P0 < K, not finite for P0 >= K) the analysis consists of the      *)
(* equilibria and the maximum growth rate alone, with nothing in its place. *)
C10_HalfTimeReported ==
    pc = "simulate" =>
        IF 2 * params.P0 < params.K
        THEN /\ AnalysisLines = <<"analysis", "equilibria", "t_half", "max_growth">>
             /\ HalfTime(params).kind = "fin" /\ HalfTime(params).v > 0
             /\ analysis.t_half = <<Format(HalfTime(params).v, 2)>>
        ELSE /\ AnalysisLines = <<"analysis", "equilibria", "max_growth">>
             /\ analysis.t_half = <<>>
             /\ params.P0 < params.K =>
                   HalfTime(params).kind = "fin" /\ HalfTime(params).v <= 0

C10_Witness ==
    /\ pc = "simulate"
    /\ 2 * params.P0 = params.K
    /\ ~Printed("t_half")

====
